---- MODULE Spec2Model ----
(***************************************************************************)
(* Model of golem's Context (src/src/context.rs): the wrapper around a     *)
(* glow/OpenGL context.  The GL driver is modelled by the part of its      *)
(* state the wrapper's calls read and write.  Sizes, offsets and counts    *)
(* stay far below the usize and i32 widths, so the `as i32` casts keep     *)
(* their values; the one subtraction that can overflow with small values   *)
(* (range.end - range.start) is modelled with both outcomes a build can    *)
(* produce.                                                                *)
(***************************************************************************)
EXTENDS Integers, Sequences, FiniteSets, TLC

VARIABLES
    length,     \* Buffer.length: the recorded capacity in bytes
    store,      \* the GL data store of the buffer bound at `bind`
    sends,      \* number of send_data calls made on the buffer
    last,       \* arguments and effects of the most recent send_data call
    written,    \* per byte, the call that most recently sent an element there
    target,     \* target_arch of the build: "native" or "wasm32"
    overflow_checks, \* TRUE in a build that panics on integer overflow (debug)
    strong,     \* strong count of the shared Rc<ContextContents>
    ctxAlive,   \* the Context returned by from_glow has not been dropped
    vao,        \* ContextContents.vao
    vaoDeletes, \* number of delete_vertex_array calls issued
    shaders,    \* the ShaderPrograms created, by GL program id
    buffers,    \* the Buffers created, by GL buffer id
    textures,   \* the Textures created, by GL texture id
    currentProgram,     \* GL CURRENT_PROGRAM (0: none)
    arrayBuffer,        \* GL ARRAY_BUFFER binding (0: none)
    elementArrayBuffer, \* GL ELEMENT_ARRAY_BUFFER binding (0: none)
    attribs,    \* GL vertex attribute arrays, by location
    clearColor, \* GL clear colour
    colorBuffer,\* colour the framebuffer was last cleared to
    op,         \* the most recent operation and its arguments
    calls,      \* the GL calls the most recent operation issued, in order
    lastDraw,   \* arguments of the draw_elements call of the most recent operation
    result      \* what the most recent operation returned

bufVars  == <<length, store, sends, last, written>>
buildVars == <<target, overflow_checks>>
rcVars   == <<strong, ctxAlive, vao, vaoDeletes>>
objVars  == <<shaders, buffers, textures>>
bindVars == <<currentProgram, arrayBuffer, elementArrayBuffer, attribs>>
clearVars == <<clearColor, colorBuffer>>
opVars   == <<op, calls, lastDraw, result>>

vars == <<bufVars, buildVars, rcVars, objVars, bindVars, clearVars, opVars>>

(* ----------------------------- bounds ---------------------------------- *)
MaxStart == 2       \* largest element index `start` passed to send_data
MaxData  == 2       \* longest data slice passed to send_data
MaxSends == 3       \* send_data calls per behaviour
MaxShaders == 2     \* ShaderPrograms created per behaviour
MaxBuffers == 2     \* Buffers created per behaviour
MaxTextures == 1    \* Textures created per behaviour
MaxIndex == 2       \* largest bound of a draw range
ColorLevels == 1    \* each colour component ranges over 0..ColorLevels

(* --------------------------- helpers ----------------------------------- *)
\* size_of::<T>() for the Pod element types sent (u8 and f32 / u32)
ElemSizes == {1, 4}

\* a byte of a data store whose contents GL leaves unspecified
Undef == 0

\* length: 0 in new_buffer
new_buffer_length == 0

NoDraw == [mode |-> "none", count |-> 0, type |-> "none", offset |-> 0]

NoOp == [name |-> "none", args |-> <<>>]

NoSend == [size |-> 0, start |-> 0, len |-> 0, oldLength |-> 0, grew |-> FALSE]


(* ------------------------- shader descriptions ------------------------- *)
\* a piece of shader source text
Text(str) == [kind |-> "text", name |-> str, size |-> 0]

\* Attribute::Vector(n, name)
Vector(n, name) == [kind |-> "attr", name |-> name, size |-> n]

\* a Uniform of a ShaderDescription
Uniform(name) == [kind |-> "uniform", name |-> name, size |-> 0]

\* attr.name()
attr_name(attr) == attr.name

\* attr.size()
attr_size(attr) == attr.size

\* attr.as_glsl(position, &mut shader): appends the attribute's declaration
attr_as_glsl(attr, position, shader) ==
    Append(shader, [kind |-> position, name |-> attr.name, size |-> attr.size])

\* uniform.as_glsl(&mut shader): appends the uniform's declaration
uniform_as_glsl(uniform, shader) ==
    Append(shader, [kind |-> "uniform_decl", name |-> uniform.name, size |-> 0])

VertexInputs == { <<>>,
                  <<Vector(2, "vert_position"), Vector(4, "vert_color")>> }

\* vertex input lists of the programs that get bound
BoundInputs == { <<>>,
                 <<Vector(2, "vert_position")>>,
                 <<Vector(2, "vert_position"), Vector(4, "vert_color")>>,
                 <<Vector(3, "vert_normal"), Vector(2, "vert_position"),
                   Vector(4, "vert_color")>> }

FragmentInputs == { <<>>,
                    <<Vector(4, "frag_color")>>,
                    <<Vector(4, "frag_color"), Vector(2, "frag_uv")>> }

UniformLists == { <<>>, <<Uniform("projection"), Uniform("image")>> }

VertexBodies == { <<Text("void main() {"), Text("gl_Position"), Text("}")>> }

FragmentBodies == { <<Text("void main() {"), Text("gl_FragColor"), Text("= frag_color; }")>>,
                    <<Text("gl_FragColor"), Text("gl_FragColor")>> }

\* the ShaderDescriptions passed to new_shader
ShaderDescs == [vertex_input : VertexInputs, fragment_input : FragmentInputs,
                uniforms : UniformLists, vertex_shader : VertexBodies,
                fragment_shader : FragmentBodies]

\* the example's description (examples/image.rs)
ExampleDesc == [vertex_input |-> <<Vector(2, "vert_position"), Vector(4, "vert_color")>>,
                fragment_input |-> <<Vector(4, "frag_color")>>,
                uniforms |-> <<>>,
                vertex_shader |-> <<Text("void main() {"), Text("gl_Position"), Text("}")>>,
                fragment_shader |-> <<Text("void main() {"), Text("gl_FragColor"),
                                      Text("= frag_color; }")>>]

\* the example's description with other vertex inputs
InputDescs == {[ExampleDesc EXCEPT !.vertex_input = input] : input \in BoundInputs}

(* ------------------------ generate_shader_text ------------------------- *)
RECURSIVE push_attrs(_, _, _, _)
\* for attr in attrs.iter() { attr.as_glsl(position, &mut shader); }
push_attrs(shader, attrs, i, position) ==
    IF i > Len(attrs) THEN shader
    ELSE push_attrs(attr_as_glsl(attrs[i], position, shader), attrs, i + 1, position)

RECURSIVE push_uniforms(_, _, _)
\* for uniform in uniforms.iter() { uniform.as_glsl(&mut shader); }
push_uniforms(shader, uniforms, i) ==
    IF i > Len(uniforms) THEN shader
    ELSE push_uniforms(uniform_as_glsl(uniforms[i], shader), uniforms, i + 1)

\* the lines pushed before the declarations
shader_header(arch) ==
    (IF arch # "wasm32" THEN <<Text("#version 150\n")>> ELSE <<>>)
        \o <<Text("precision mediump float;\n")>>

\* the declarations of the outputs pushed before those of the inputs
generate_shader_text_swapped(arch, body, inputs, outputs, uniforms) ==
    LET s0 == shader_header(arch)
        s1 == push_attrs(s0, outputs, 1, "out")
        s2 == push_attrs(s1, inputs, 1, "in")
        s3 == push_uniforms(s2, uniforms, 1)
    IN s3 \o body

generate_shader_text(arch, body, inputs, outputs, uniforms) ==
    LET s0 == shader_header(arch)
        s1 == push_attrs(s0, inputs, 1, "in")
        s2 == push_attrs(s1, outputs, 1, "out")
        s3 == push_uniforms(s2, uniforms, 1)
    IN s3 \o body

(* ------------------------- Rc<ContextContents> ------------------------- *)
\* dropping one clone of the Rc: the last one runs ContextContents::drop,
\* which calls delete_vertex_array(self.vao)
rc_release ==
    /\ strong' = strong - 1
    /\ vaoDeletes' = IF strong = 1 THEN vaoDeletes + 1 ELSE vaoDeletes
    /\ UNCHANGED vao

\* a constructor that keeps no clone of the Rc
rc_clone_missing(count) == count

\* Context(self.0.clone())
rc_clone(count) == count + 1

(* ----------------------------- from_glow ------------------------------- *)
\* create_vertex_array() on native targets, 0 on wasm32
from_glow_vao(arch) == IF arch # "wasm32" THEN 1 ELSE 0

(* ----------------------------- new_shader ------------------------------ *)
\* desc.fragment_shader.replace("gl_FragColor", "outputColor")
replace_frag_color(body) ==
    [i \in 1..Len(body) |->
        IF body[i] = Text("gl_FragColor") THEN Text("outputColor") ELSE body[i]]

vertex_source_of(arch, desc) ==
    generate_shader_text(arch, desc.vertex_shader, desc.vertex_input,
                         desc.fragment_input, desc.uniforms)

fragment_output_of(arch) ==
    IF arch = "wasm32" THEN <<>> ELSE <<Vector(4, "outputColor")>>

fragment_body_of(arch, desc) ==
    IF arch = "wasm32" THEN desc.fragment_input
    ELSE replace_frag_color(desc.fragment_shader)

fragment_source_of(arch, desc) ==
    generate_shader_text(arch, fragment_body_of(arch, desc), desc.fragment_input,
                         fragment_output_of(arch), desc.uniforms)

\* for (index, attr) in desc.vertex_input.iter().enumerate() {
\*     gl.bind_attrib_location(id, index as u32, attr.name()); }
attrib_locations(desc) ==
    [i \in 1..Len(desc.vertex_input) |-> attr_name(desc.vertex_input[i])]

\* what the driver answers to the create / compile / link calls: success,
\* or the first failure of each kind (create_shader for the vertex shader
\* fails; the vertex shader does not compile)
DriverOutcomes == {"Ok", "ShaderCompilationError", "ContextError"}

\* the GL calls new_shader issues up to its return
new_shader_calls(desc, outcome) ==
    IF outcome = "ContextError" THEN <<"create_shader">>
    ELSE IF outcome = "ShaderCompilationError"
    THEN <<"create_shader", "shader_source", "compile_shader",
           "get_shader_compile_status", "get_shader_info_log">>
    ELSE <<"create_shader", "shader_source", "compile_shader", "get_shader_compile_status",
           "create_shader", "shader_source", "compile_shader", "get_shader_compile_status",
           "create_program", "attach_shader", "attach_shader">>
         \o (IF target # "wasm32" THEN <<"bind_frag_data_location">> ELSE <<>>)
         \o [i \in 1..Len(desc.vertex_input) |-> "bind_attrib_location"]
         \o <<"link_program", "get_program_link_status">>

\* the ShaderProgram new_shader returns, with the GL program it names
shader_program(arch, desc) ==
    [vertex_source |-> vertex_source_of(arch, desc),
     fragment_source |-> fragment_source_of(arch, desc),
     locations |-> attrib_locations(desc),
     input |-> desc.vertex_input,
     alive |-> TRUE]

new_shader(desc, outcome) ==
    /\ ctxAlive
    /\ result # "panic"
    /\ Len(shaders) < MaxShaders
    /\ op' = [name |-> "new_shader", args |-> <<desc>>]
    /\ result' = outcome
    /\ calls' = new_shader_calls(desc, outcome)
    /\ lastDraw' = NoDraw
    /\ IF outcome = "Ok"
       THEN /\ shaders' = Append(shaders, shader_program(target, desc))
            /\ strong' = rc_clone(strong)
       ELSE UNCHANGED <<shaders, strong>>
    /\ UNCHANGED <<bufVars, buildVars, ctxAlive, vao, vaoDeletes, buffers, textures,
                   bindVars, clearVars>>

NewShader(descs) == \E desc \in descs, outcome \in DriverOutcomes : new_shader(desc, outcome)


(* ----------------------------- new_buffer ------------------------------ *)
CreateOutcomes == {"Ok", "ContextError"}

\* the Buffer new_buffer returns
buffer_object(kind) == [kind |-> kind, alive |-> TRUE]

new_buffer(kind, outcome) ==
    /\ ctxAlive
    /\ result # "panic"
    /\ Len(buffers) < MaxBuffers
    /\ op' = [name |-> "new_buffer", args |-> <<kind>>]
    /\ result' = outcome
    /\ calls' = <<"create_buffer">>
    /\ lastDraw' = NoDraw
    /\ IF outcome = "Ok"
       THEN /\ buffers' = Append(buffers, buffer_object(kind))
            /\ strong' = rc_clone(strong)
       ELSE UNCHANGED <<buffers, strong>>
    /\ UNCHANGED <<bufVars, buildVars, ctxAlive, vao, vaoDeletes, shaders, textures,
                   bindVars, clearVars>>

NewVertexBuffer == \E outcome \in CreateOutcomes : new_buffer("vertex", outcome)

NewElementBuffer == \E outcome \in CreateOutcomes : new_buffer("element", outcome)

(* ----------------------------- new_texture ----------------------------- *)
\* glow::MAX_TEXTURE_SIZE, the GL enumerant the asserts compare against
MAX_TEXTURE_SIZE == 3379

new_texture(width, height, outcome) ==
    /\ ctxAlive
    /\ result # "panic"
    /\ Len(textures) < MaxTextures
    /\ op' = [name |-> "new_texture", args |-> <<width, height>>]
    /\ lastDraw' = NoDraw
    /\ IF ~(width < MAX_TEXTURE_SIZE /\ height < MAX_TEXTURE_SIZE)
       THEN /\ result' = "panic"
            /\ calls' = <<>>
            /\ UNCHANGED <<textures, strong>>
       ELSE IF outcome # "Ok"
       THEN /\ result' = outcome
            /\ calls' = <<"create_texture">>
            /\ UNCHANGED <<textures, strong>>
       ELSE /\ result' = "Ok"
            /\ calls' = <<"create_texture", "bind_texture", "tex_parameter_i32",
                          "tex_parameter_i32", "tex_parameter_i32", "tex_parameter_i32",
                          "tex_image_2d", "bind_texture">>
            /\ textures' = Append(textures, [alive |-> TRUE])
            /\ strong' = rc_clone(strong)
    /\ UNCHANGED <<bufVars, buildVars, ctxAlive, vao, vaoDeletes, shaders, buffers,
                   bindVars, clearVars>>

NewTexture == \E width \in {1, MAX_TEXTURE_SIZE}, height \in {1, MAX_TEXTURE_SIZE},
                 outcome \in CreateOutcomes : new_texture(width, height, outcome)

(* -------------------------------- drops -------------------------------- *)
\* the Context returned by from_glow goes out of scope
DropContext ==
    /\ ctxAlive
    /\ ctxAlive' = FALSE
    /\ rc_release
    /\ op' = [name |-> "drop_context", args |-> <<>>]
    /\ calls' = <<>>
    /\ lastDraw' = NoDraw
    /\ UNCHANGED <<bufVars, buildVars, objVars, bindVars, clearVars, result>>

\* delete_shader(id, fragment, vertex), then the program's Context clone is
\* dropped; a deleted program that is current stays current
DropShader ==
    \E id \in 1..Len(shaders) :
        /\ shaders[id].alive
        /\ shaders' = [shaders EXCEPT ![id].alive = FALSE]
        /\ rc_release
        /\ op' = [name |-> "drop_shader", args |-> <<id>>]
        /\ calls' = <<"delete_program", "delete_shader", "delete_shader">>
        /\ lastDraw' = NoDraw
        /\ UNCHANGED <<bufVars, buildVars, ctxAlive, buffers, textures, bindVars,
                       clearVars, result>>

\* glDeleteBuffers resets the bindings of the deleted buffer to 0
delete_buffer(binding, id) == IF binding = id THEN 0 ELSE binding

DropBuffer ==
    \E id \in 1..Len(buffers) :
        /\ buffers[id].alive
        /\ buffers' = [buffers EXCEPT ![id].alive = FALSE]
        /\ arrayBuffer' = delete_buffer(arrayBuffer, id)
        /\ elementArrayBuffer' = delete_buffer(elementArrayBuffer, id)
        /\ rc_release
        /\ op' = [name |-> "drop_buffer", args |-> <<id>>]
        /\ calls' = <<"delete_buffer">>
        /\ lastDraw' = NoDraw
        /\ UNCHANGED <<bufVars, buildVars, ctxAlive, shaders, textures, currentProgram,
                       attribs, clearVars, result>>

DropTexture ==
    \E id \in 1..Len(textures) :
        /\ textures[id].alive
        /\ textures' = [textures EXCEPT ![id].alive = FALSE]
        /\ rc_release
        /\ op' = [name |-> "drop_texture", args |-> <<id>>]
        /\ calls' = <<"delete_texture">>
        /\ lastDraw' = NoDraw
        /\ UNCHANGED <<bufVars, buildVars, ctxAlive, shaders, buffers, bindVars,
                       clearVars, result>>

(* -------------------------------- clear -------------------------------- *)
\* glClear(COLOR_BUFFER_BIT | ...) fills the colour buffer with the current
\* clear colour
gl_clear(buffer, color) == color

\* glClearColor sets the clear colour
gl_clear_color(color, rgba) == rgba

\* the two GL calls of clear, in the order the code issues them
clear_effect(buffer, color, rgba) ==
    LET cleared == gl_clear(buffer, color)
        newColor == gl_clear_color(color, rgba)
    IN <<cleared, newColor>>

clear(r, g, b, a) ==
    /\ ctxAlive
    /\ result # "panic"
    /\ op' = [name |-> "clear", args |-> <<r, g, b, a>>]
    /\ calls' = <<"clear", "clear_color">>
    /\ colorBuffer' = clear_effect(colorBuffer, clearColor, <<r, g, b, a>>)[1]
    /\ clearColor' = clear_effect(colorBuffer, clearColor, <<r, g, b, a>>)[2]
    /\ result' = "Ok"
    /\ lastDraw' = NoDraw
    /\ UNCHANGED <<bufVars, buildVars, rcVars, objVars, bindVars>>

Clear == \E r \in 0..ColorLevels, g \in 0..ColorLevels, b \in 0..ColorLevels,
           a \in 0..ColorLevels : clear(r, g, b, a)

(* ----------------------------- bind_program ---------------------------- *)
\* size_of::<f32>()
SizeOfF32 == 4

RECURSIVE sum_sizes(_, _)
\* input.iter().map(|attr| attr.size()).sum(), from index i on
sum_sizes(input, i) ==
    IF i > Len(input) THEN 0 ELSE attr_size(input[i]) + sum_sizes(input, i + 1)

\* let stride = stride * size_of::<f32>() as i32;
stride_of(input) == sum_sizes(input, 1) * SizeOfF32

\* the offset advanced in components instead of bytes
next_offset_unscaled(offset, size) == offset + size

\* offset += size * size_of::<f32>() as i32;
next_offset(offset, size) == offset + size * SizeOfF32

Disabled == [enabled |-> FALSE, size |-> 0, stride |-> 0, offset |-> 0]

\* enable_vertex_attrib_array(location); vertex_attrib_pointer_f32(location,
\* size, FLOAT, false, stride, offset); location is 0-based, arr 1-based
set_attrib(arr, location, size, stride, offset) ==
    LET top == IF location + 1 > Len(arr) THEN location + 1 ELSE Len(arr)
    IN [i \in 1..top |->
          IF i = location + 1
          THEN [enabled |-> TRUE, size |-> size, stride |-> stride, offset |-> offset]
          ELSE IF i <= Len(arr) THEN arr[i] ELSE Disabled]

RECURSIVE bind_attribs(_, _, _, _, _)
\* for (index, attr) in input.iter().enumerate() { ... }; i = index + 1
bind_attribs(arr, input, i, stride, offset) ==
    IF i > Len(input) THEN arr
    ELSE bind_attribs(set_attrib(arr, i - 1, attr_size(input[i]), stride, offset),
                      input, i + 1, stride, next_offset(offset, attr_size(input[i])))

bind_program(id, input, vb) ==
    /\ result # "panic"
    /\ op' = [name |-> "bind_program", args |-> <<id, vb>>]
    /\ calls' = <<"use_program", "bind_buffer">>
    /\ currentProgram' = id
    /\ arrayBuffer' = vb
    /\ attribs' = bind_attribs(attribs, input, 1, stride_of(input), 0)
    /\ result' = "Ok"
    /\ lastDraw' = NoDraw
    /\ UNCHANGED <<bufVars, buildVars, rcVars, objVars, elementArrayBuffer, clearVars>>

\* a live ShaderProgram binds itself with its own id and input
BindProgram ==
    \E id \in 1..Len(shaders), vb \in 1..Len(buffers) :
        /\ shaders[id].alive
        /\ buffers[vb].alive /\ buffers[vb].kind = "vertex"
        /\ bind_program(id, shaders[id].input, vb)

(* --------------------------------- draw -------------------------------- *)
GeometryTypes == {"Points", "Lines", "LineStrip", "LineLoop", "TriangleStrip",
                  "TriangleFan", "Triangles"}

\* let shape_type = match geometry { ... };
shape_type(geometry) ==
    CASE geometry = "Points" -> "POINTS"
      [] geometry = "Lines" -> "LINES"
      [] geometry = "LineStrip" -> "LINE_STRIP"
      [] geometry = "LineLoop" -> "LINE_LOOP"
      [] geometry = "TriangleStrip" -> "TRIANGLE_STRIP"
      [] geometry = "TriangleFan" -> "TRIANGLE_FAN"
      [] geometry = "Triangles" -> "TRIANGLES"

\* (range.end - range.start) as i32 where the subtraction did not panic: a
\* wrapped usize difference truncates to the negative i32 end - start
draw_length(start, end) == end - start

\* the offset argument of draw_elements
draw_offset(start) == start

\* a draw that never finds the program missing
no_bound_program_unchecked(program) == FALSE

\* if program == 0
no_bound_program(program) == program = 0

draw_with_type(name, eb, start, end, geometry) ==
    /\ ctxAlive
    /\ result # "panic"
    /\ op' = [name |-> name, args |-> <<eb, start, end, geometry>>]
    /\ IF no_bound_program(currentProgram)
       THEN /\ result' = "NoBoundProgram"
            /\ calls' = <<"get_parameter_i32">>
            /\ lastDraw' = NoDraw
            /\ UNCHANGED elementArrayBuffer
       ELSE /\ elementArrayBuffer' = eb
            /\ IF end < start /\ overflow_checks
               THEN /\ result' = "panic"
                    /\ calls' = <<"get_parameter_i32", "bind_buffer">>
                    /\ lastDraw' = NoDraw
               ELSE /\ result' = "Ok"
                    /\ calls' = <<"get_parameter_i32", "bind_buffer", "draw_elements">>
                    /\ lastDraw' = [mode |-> shape_type(geometry),
                                    count |-> draw_length(start, end),
                                    type |-> "UNSIGNED_INT",
                                    offset |-> draw_offset(start)]
    /\ UNCHANGED <<bufVars, buildVars, rcVars, objVars, currentProgram, arrayBuffer,
                   attribs, clearVars>>

LiveElementBuffers == {id \in 1..Len(buffers) : buffers[id].alive /\ buffers[id].kind = "element"}

Draw == \E eb \in LiveElementBuffers, start \in 0..MaxIndex, end \in 0..MaxIndex :
            draw_with_type("draw", eb, start, end, "Triangles")

DrawWithType == \E eb \in LiveElementBuffers, start \in 0..MaxIndex, end \in 0..MaxIndex,
                   geometry \in GeometryTypes :
                    draw_with_type("draw_with_type", eb, start, end, geometry)

(* ------------------------------ GL ------------------------------------- *)
\* glBufferData(target, size, NULL, usage): a fresh store of `size` bytes
\* whose contents are unspecified; the old store is discarded.
buffer_data_size(size) == [i \in 1..size |-> Undef]

\* glBufferSubData(target, offset, data): overwrite bytes offset ..
\* offset + Len(data) - 1 (0-based); GL_INVALID_VALUE and no write when the
\* range leaves the store.
buffer_sub_data_u8_slice(st, offset, data) ==
    IF offset + Len(data) > Len(st)
    THEN st
    ELSE [i \in 1..Len(st) |->
            IF i > offset /\ i <= offset + Len(data) THEN data[i - offset] ELSE st[i]]

(* ---------------------------- send_data -------------------------------- *)
\* let data_start = size_of::<T>() * start;
data_start(size, start) == size * start

\* bytemuck::cast_slice(data).len()
data_length(size, n) == size * n

\* if data_length + start >= *length
needs_resize(size, start, n, len) == data_length(size, n) + start >= len

\* growth to the exact size needed, without doubling
new_length_exact(size, start, n) == data_length(size, n) + data_start(size, start)

\* let new_length = (data_length + data_start) * 2;
new_length(size, start, n) == (data_length(size, n) + data_start(size, start)) * 2

\* the offset handed to buffer_sub_data_u8_slice
sub_data_offset(size, start) == start

\* the bytes of the call: every byte carries the call's number
u8_buffer(size, n, tag) == [i \in 1..data_length(size, n) |-> tag]

\* ghost: the element range start .. start + n of the call, in bytes
Mark(w, size, start, n, tag) ==
    LET lo  == size * start
        hi  == size * start + size * n
        top == IF hi > Len(w) THEN hi ELSE Len(w)
    IN [i \in 1..top |->
          IF i > lo /\ i <= hi THEN tag
          ELSE IF i <= Len(w) THEN w[i] ELSE 0]

send_data(size, start, n) ==
    LET grow   == needs_resize(size, start, n, length)
        resized == IF grow THEN buffer_data_size(new_length(size, start, n)) ELSE store
    IN /\ sends < MaxSends
       /\ length' = IF grow THEN new_length(size, start, n) ELSE length
       /\ store' = buffer_sub_data_u8_slice(resized, sub_data_offset(size, start),
                                            u8_buffer(size, n, sends + 1))
       /\ sends' = sends + 1
       /\ last' = [size |-> size, start |-> start, len |-> n,
                   oldLength |-> length, grew |-> grow]
       /\ written' = Mark(written, size, start, n, sends + 1)
       /\ op' = [name |-> "send_data", args |-> <<size, start, n>>]
       /\ calls' = IF grow THEN <<"buffer_data_size", "buffer_sub_data_u8_slice">>
                   ELSE <<"buffer_sub_data_u8_slice">>
       /\ UNCHANGED <<buildVars, rcVars, objVars, bindVars, clearVars, lastDraw, result>>

SendData == \E size \in ElemSizes, start \in 0..MaxStart, n \in 0..MaxData :
                send_data(size, start, n)

(* ---------------------- claims about the context ----------------------- *)
IsDraw(o) == o.name \in {"draw", "draw_with_type"}

\* number of times a GL call occurs in a call log
Count(log, fn) == Cardinality({i \in 1..Len(log) : log[i] = fn})

\* the draw returned NoBoundProgram and issued no bind and no draw call
DrawRefused ==
    /\ result' = "NoBoundProgram"
    /\ Count(calls', "bind_buffer") = 0
    /\ Count(calls', "draw_elements") = 0
    /\ UNCHANGED bindVars

\* the draw bound the element buffer, issued one draw call and returned Ok
DrawIssued ==
    /\ result' = "Ok"
    /\ elementArrayBuffer' = op'.args[1]
    /\ Count(calls', "bind_buffer") = 1
    /\ Count(calls', "draw_elements") = 1
    /\ UNCHANGED <<currentProgram, arrayBuffer, attribs>>

\* C1 as stated: with current program 0, draw and draw_with_type return
\* Err(NoBoundProgram) without binding or drawing; with a non-zero current
\* program they bind the element buffer, issue exactly one draw_elements
\* call and return Ok(()), whatever the range.
C1_DrawAnyRange ==
    [][IsDraw(op') => IF currentProgram = 0 THEN DrawRefused ELSE DrawIssued]_vars

\* C1 amended: the same, where the Ok case is for ranges with
\* range.start <= range.end.
C1_DrawChecksProgram ==
    [][IsDraw(op') =>
         IF currentProgram = 0 THEN DrawRefused
         ELSE (op'.args[2] <= op'.args[3] => DrawIssued)]_vars

\* C1 witness: a draw of a non-empty range with a program bound went through
C1_Witness == op.name = "draw" /\ result = "Ok" /\ currentProgram # 0
                /\ lastDraw.count > 0

\* size in bytes of a GL UNSIGNED_INT index
IndexSize == 4

\* C8: with range.start <= range.end and a program bound, the draw call has
\* count range.end - range.start and reads 32-bit indices beginning at byte
\* offset 4 * range.start of the element buffer.
C8_DrawReadsRange ==
    (IsDraw(op) /\ result = "Ok" /\ op.args[2] <= op.args[3]) =>
        /\ lastDraw.count = op.args[3] - op.args[2]
        /\ lastDraw.type = "UNSIGNED_INT"
        /\ lastDraw.offset = IndexSize * op.args[2]

\* C9: clear(r, g, b, a) clears the colour buffer to the colour passed in
\* that same call.
C9_ClearUsesOwnColor == op.name = "clear" => colorBuffer = op.args

RECURSIVE SizeBefore(_, _)
\* s_0 + ... + s_{i-1} for the 1-based position i + 1
SizeBefore(input, i) == IF i = 0 THEN 0 ELSE SizeBefore(input, i - 1) + input[i].size

\* C10: bind_program enables attribute i at location i, the location
\* new_shader bound its name to, with offset 4 * (s_0 + ... + s_{i-1}) and
\* stride 4 * (s_0 + ... + s_{n-1}); the records are packed and do not
\* overlap.
C10_PackedLayout ==
    op.name = "bind_program" =>
        LET prog  == shaders[currentProgram]
            input == prog.input
            n     == Len(input)
        IN /\ Len(attribs) >= n
           /\ \A i \in 1..n :
                /\ attribs[i].enabled
                /\ attribs[i].size = input[i].size
                /\ prog.locations[i] = input[i].name
                /\ attribs[i].offset = 4 * SizeBefore(input, i - 1)
                /\ attribs[i].stride = 4 * SizeBefore(input, n)
                /\ attribs[i].offset + 4 * input[i].size <= attribs[i].stride
                /\ i < n => attribs[i + 1].offset = attribs[i].offset + 4 * input[i].size

\* C10 witness: a program with three attributes is bound
C10_Witness == op.name = "bind_program" /\ Len(shaders[currentProgram].input) = 3

\* every handle holding a clone of the Rc has been dropped
AllDropped ==
    /\ ~ctxAlive
    /\ \A i \in 1..Len(shaders) : ~shaders[i].alive
    /\ \A i \in 1..Len(buffers) : ~buffers[i].alive
    /\ \A i \in 1..Len(textures) : ~textures[i].alive

\* C7: the VAO is deleted exactly once, after the Context and every
\* ShaderProgram, Buffer and Texture created from it have been dropped, and
\* never while one of them is alive.
C7_VaoDeletedLast == vaoDeletes = (IF AllDropped THEN 1 ELSE 0)

\* C7 witness: objects of every kind were created, and all are dropped
C7_Witness == AllDropped /\ vaoDeletes = 1 /\ Len(shaders) > 0 /\ Len(buffers) > 1
                /\ Len(textures) > 0

\* the declaration of an attribute at a position
Decl(position, attr) == [kind |-> position, name |-> attr.name, size |-> attr.size]

\* text is header, inputs, outputs, uniforms, body, in this order
Layout(text, arch, body, inputs, outputs, uniforms) ==
    LET h  == IF arch = "wasm32" THEN 1 ELSE 2
        ni == Len(inputs)
        no == Len(outputs)
        nu == Len(uniforms)
    IN /\ Len(text) = h + ni + no + nu + Len(body)
       /\ arch # "wasm32" => text[1] = Text("#version 150\n")
       /\ text[h] = Text("precision mediump float;\n")
       /\ \A i \in 1..ni : text[h + i] = Decl("in", inputs[i])
       /\ \A i \in 1..no : text[h + ni + i] = Decl("out", outputs[i])
       /\ \A i \in 1..nu : text[h + ni + no + i].kind = "uniform_decl"
                           /\ text[h + ni + no + i].name = uniforms[i].name
       /\ \A i \in 1..Len(body) : text[h + ni + no + nu + i] = body[i]

\* the attributes a shader text declares at a position, in order
Declared(text, position) ==
    LET idx == {i \in 1..Len(text) : text[i].kind = position}
        RECURSIVE pick(_)
        pick(i) == IF i > Len(text) THEN <<>>
                   ELSE IF i \in idx THEN <<[name |-> text[i].name, size |-> text[i].size]>> \o pick(i + 1)
                   ELSE pick(i + 1)
    IN pick(1)

\* C6: generate_shader_text returns header, input declarations, output
\* declarations, uniform declarations and the body, each in slice order;
\* new_shader passes desc.fragment_input as the vertex shader's outputs and
\* as the fragment shader's inputs, so both stages declare the same
\* interface attributes in the same order.
C6_ShaderTextLayout ==
    (op.name = "new_shader" /\ result = "Ok") =>
        LET prog == shaders[Len(shaders)]
            desc == op.args[1]
        IN /\ Layout(prog.vertex_source, target, desc.vertex_shader,
                     desc.vertex_input, desc.fragment_input, desc.uniforms)
           /\ Layout(prog.fragment_source, target, fragment_body_of(target, desc),
                     desc.fragment_input, fragment_output_of(target), desc.uniforms)
           /\ Declared(prog.vertex_source, "out") = Declared(prog.fragment_source, "in")

\* C6 witness: a native program with inputs, interface attributes and uniforms
C6_Witness ==
    /\ op.name = "new_shader" /\ result = "Ok" /\ target = "native"
    /\ Len(op.args[1].vertex_input) = 2
    /\ Len(op.args[1].fragment_input) = 2
    /\ Len(op.args[1].uniforms) = 2

(* -------------------------------- Init --------------------------------- *)
\* the state after Context::from_glow, in a build of one of the given kinds,
\* followed by new_shader for each description of one of the lists in
\* `programs` and new_vertex_buffer / new_element_buffer for `kinds`
Setup(archs, checks, programs, kinds) ==
    /\ target \in archs
    /\ overflow_checks \in checks
    /\ vao = from_glow_vao(target)
    /\ ctxAlive = TRUE
    /\ vaoDeletes = 0
    /\ \E descs \in programs :
          /\ shaders = [i \in 1..Len(descs) |-> shader_program(target, descs[i])]
          /\ strong = 1 + Len(descs) + Len(kinds)
    /\ buffers = [i \in 1..Len(kinds) |-> buffer_object(kinds[i])]
    /\ textures = <<>>
    /\ currentProgram = 0
    /\ arrayBuffer = 0
    /\ elementArrayBuffer = 0
    /\ attribs = <<>>
    /\ clearColor = <<0, 0, 0, 0>>
    /\ colorBuffer = <<>>
    /\ op = NoOp
    /\ calls = <<>>
    /\ lastDraw = NoDraw
    /\ result = "Ok"
    /\ length = new_buffer_length
    /\ store = <<>>
    /\ sends = 0
    /\ last = NoSend
    /\ written = <<>>

\* the state Context::from_glow leaves
from_glow(archs, checks) == Setup(archs, checks, {<<>>}, <<>>)

Init == from_glow({"native", "wasm32"}, BOOLEAN)

(* ----------------------- claims about send_data ------------------------ *)
\* the element range of the last call, in bytes
LastEnd == last.size * last.start + last.size * last.len

\* C2: after every send_data call the recorded capacity is at least
\* size_of::<T>() * start + size_of::<T>() * data.len().
C2_CapacityCoversWrite == sends > 0 => length >= LastEnd

\* C3: a call whose data fits (byte offset + byte length <= *length) issues
\* no reallocation and leaves *length unchanged.
C3_NoGrowthWhenFits ==
    (sends > 0 /\ LastEnd <= last.oldLength) =>
        (~last.grew /\ length = last.oldLength)

\* C4: for size_of::<T>() >= 1 every reallocating call sets *length to
\* 2 * (size * start + byte length of data), at least twice the capacity
\* before the call, and the recorded capacity never decreases.
C4_DoublingMonotone ==
    (sends > 0 /\ last.size >= 1) =>
        /\ length >= last.oldLength
        /\ last.grew => (length = 2 * LastEnd /\ length >= 2 * last.oldLength)
        /\ ~last.grew => length = last.oldLength

\* C4 witness: a reallocation of a buffer that already had capacity, at a
\* non-zero element index.
C4_Witness == sends > 1 /\ last.grew /\ last.oldLength > 0 /\ last.start > 0
                /\ last.size = 4

\* C5: after each call the buffer holds that call's bytes at its element
\* range and, elsewhere, the bytes of the most recent earlier call that
\* wrote them, also across a growth reallocation.
C5_ContentsPreserved ==
    \A i \in 1..Len(written) :
        written[i] # 0 => (i <= Len(store) /\ store[i] = written[i])

(* ------------------------- specifications ------------------------------ *)
\* send_data on one buffer
SpecBuffer == Setup({"native"}, {TRUE}, {<<>>}, <<"vertex">>) /\ [][SendData]_vars

\* shader source generation
SpecShader == from_glow({"native", "wasm32"}, {TRUE}) /\ [][NewShader(ShaderDescs)]_vars

LifeNext == \/ NewShader({ExampleDesc})
            \/ NewVertexBuffer
            \/ NewElementBuffer
            \/ NewTexture
            \/ DropContext
            \/ DropShader
            \/ DropBuffer
            \/ DropTexture

\* object lifetimes
SpecLife == from_glow({"native", "wasm32"}, {TRUE}) /\ [][LifeNext]_vars

DrawNext == \/ BindProgram
            \/ Draw
            \/ DrawWithType

\* binding and drawing, with two programs, a vertex buffer and an element
\* buffer created
SpecDraw == Setup({"native"}, BOOLEAN, {<<d1, d2>> : d1 \in InputDescs, d2 \in InputDescs},
                  <<"vertex", "element">>)
            /\ [][DrawNext]_vars

\* clearing
SpecClear == from_glow({"native"}, {TRUE}) /\ [][Clear]_vars

\* every operation of the context
Next == \/ SendData
        \/ NewShader(ShaderDescs)
        \/ NewVertexBuffer
        \/ NewElementBuffer
        \/ NewTexture
        \/ DropContext
        \/ DropShader
        \/ DropBuffer
        \/ DropTexture
        \/ BindProgram
        \/ Draw
        \/ DrawWithType
        \/ Clear

Spec == Init /\ [][Next]_vars

====
